---- MODULE Spec2Model ----
(***************************************************************************)
(* Model of photo_tools/stitch.py: one output image is assembled from the  *)
(* vertical strips of a sorted list of source images.  The state is the    *)
(* directory of source images, the locals of main and create_strips, the   *)
(* accumulation grids, the lines printed so far and the position (pc) of   *)
(* the single thread of control.  Exceptions end the run in pc = "failed"  *)
(* with the raise site kept in `error`.                                    *)
(***************************************************************************)
EXTENDS Integers, Sequences, FiniteSets

VARIABLES directory, images, pc, caller, averaging, files, image_width,
          number_of_files, strip_width, index, final, new, reads, stdout,
          written, error

vars == <<directory, images, pc, caller, averaging, files, image_width,
          number_of_files, strip_width, index, final, new, reads, stdout,
          written, error>>

\* ------------------------------------------------------------------ bounds
MaxFiles == 6
MaxWidth == 10
Height == 2

\* ------------------------------------------------- constants of the program
NumChannels == 3
Taps == 5
U8 == 256

Channels == 1..NumChannels
Rows == 1..Height

Min(a, b) == IF a < b THEN a ELSE b

\* ---------------------------------------------------------- source images
\* Sample of source image k at channel ch, row r, column c (1-based): every
\* image, channel, row and column gets its own 8-bit value.
Pixel(k, ch, r, c) == (37 * k + 11 * c + 5 * r + 3 * ch) % U8

SourceImage(k, w, ok) ==
    [width |-> w, decodable |-> ok,
     data |-> [ch \in Channels |-> [r \in Rows |-> [c \in 1..w |-> Pixel(k, ch, r, c)]]]]

\* The directories the runs start from: n same-sized decodable images of
\* width w, of which at most one is defective: undecodable, or (any but the
\* first, whose width is the layout's) of another width.
Directories ==
    {[k \in 1..n |-> SourceImage(k, w, TRUE)] : n \in 0..MaxFiles, w \in 1..MaxWidth}
    \cup
    {[k \in 1..n |-> SourceImage(k, w, k # bad)] :
        n \in 1..MaxFiles, w \in 1..MaxWidth, bad \in 1..MaxFiles}
    \cup
    {[k \in 1..n |-> SourceImage(k, IF k = odd THEN w2 ELSE w, TRUE)] :
        n \in 2..MaxFiles, w \in 1..MaxWidth, odd \in 2..MaxFiles, w2 \in 1..MaxWidth}

\* ------------------------------------------------------ get_files, line 22
RECURSIVE SortedList(_)
SortedList(S) ==
    IF S = {} THEN <<>>
    ELSE LET least == CHOOSE x \in S : \A y \in S : x <= y
         IN  <<least>> \o SortedList(S \ {least})

\* ------------------------------------------------------------- read_strip
\* array[:, start:end] of Python: the bounds are clipped to the width.
PySlice(row, start, end) == SubSeq(row, Min(start, Len(row)) + 1, Min(end, Len(row)))

\* A reader that takes the first end - start columns, whatever the start.
read_strip_from_zero(image, start, end) ==
    [ch \in Channels |-> [r \in Rows |-> PySlice(image.data[ch][r], 0, end - start)]]

read_strip(image, start, end) ==
    [ch \in Channels |-> [r \in Rows |-> PySlice(image.data[ch][r], start, end)]]

\* file_paths[j] of Python: a negative j counts from the end of the list;
\* 0 stands for the IndexError of a position outside the list.
PyIndex(list, j) ==
    IF 0 <= j /\ j < Len(list) THEN list[j + 1]
    ELSE IF j < 0 /\ -j <= Len(list) THEN list[Len(list) + j + 1]
    ELSE 0

\* What opening and decoding the file at `path` does.
ReadOutcome(path) ==
    IF path = 0 THEN "IndexError"
    ELSE IF ~images[path].decodable THEN "DecodeError"
    ELSE "ok"

\* ------------------------------------------------------- numpy on uint8
GridWidth(grid) == Len(grid[1])

zeros_like(grid) == [r \in Rows |-> [c \in 1..GridWidth(grid) |-> 0]]

\* A quotient by four.
FloorDiv4(grid) == [r \in Rows |-> [c \in 1..GridWidth(grid) |-> grid[r][c] \div 4]]

FloorDiv5(grid) == [r \in Rows |-> [c \in 1..GridWidth(grid) |-> grid[r][c] \div Taps]]

\* Width of a + b under broadcasting: equal widths, or one of them 1 and
\* stretched; -1 is the ValueError of shapes that do not broadcast.
BroadcastWidth(wa, wb) ==
    IF wa < 0 \/ wb < 0 THEN -1
    ELSE IF wa = wb THEN wa
    ELSE IF wa = 1 THEN wb
    ELSE IF wb = 1 THEN wa
    ELSE -1

\* Element (r, c) of a grid stretched to a wider shape.
Stretched(grid, r, c) == IF GridWidth(grid) = 1 THEN grid[r][1] ELSE grid[r][c]

\* a + b of two uint8 grids: the sum wraps modulo 256.
AddU8(a, b) ==
    [r \in Rows |->
        [c \in 1..BroadcastWidth(GridWidth(a), GridWidth(b)) |->
            (Stretched(a, r, c) + Stretched(b, r, c)) % U8]]

\* Lines 84-86, one channel: the five quotients are added left to right.
BlendWidth(ws) ==
    BroadcastWidth(BroadcastWidth(BroadcastWidth(BroadcastWidth(ws[1], ws[2]), ws[3]), ws[4]), ws[5])

\* A blend that adds the five grids first and divides the sum.
BlendSumThenDivide(gs) ==
    FloorDiv5(AddU8(AddU8(AddU8(AddU8(gs[1], gs[2]), gs[3]), gs[4]), gs[5]))

Blend(gs) ==
    AddU8(AddU8(AddU8(AddU8(FloorDiv5(gs[1]), FloorDiv5(gs[2])), FloorDiv5(gs[3])),
                FloorDiv5(gs[4])), FloorDiv5(gs[5]))

\* final[:, start:end] = strip, lines 90-92: the strip has the width of the
\* target or width 1 (stretched); anything else is a ValueError.
CanAssign(start, end, strip) ==
    IF GridWidth(strip) = end - start THEN TRUE ELSE GridWidth(strip) = 1

AssignColumns(grid, start, end, strip) ==
    [r \in Rows |->
        [c \in 1..GridWidth(grid) |->
            IF start < c /\ c <= end THEN Stretched(strip, r, c - start) ELSE grid[r][c]]]

RECURSIVE SumSeq(_)
SumSeq(s) == IF s = <<>> THEN 0 ELSE Head(s) + SumSeq(Tail(s))

RECURSIVE SumRows(_, _)
SumRows(grid, r) == IF r = 0 THEN 0 ELSE SumSeq(grid[r]) + SumRows(grid, r - 1)

\* grid.mean() is NaN on a grid without elements, and int(NaN) raises.
MeanIsNaN(grid) == Height * GridWidth(grid) = 0

\* int(grid.mean()), lines 94-96.
IntMean(grid) == SumRows(grid, Height) \div (Height * GridWidth(grid))

\* ------------------------------------------------ create_strips, 63 to 72
StripStart(i) == i * strip_width

\* An end that gives the last strip no remainder.
StripEndNoRemainder(i) == (i + 1) * strip_width

StripEnd(i) ==
    IF i = number_of_files - 1 THEN image_width ELSE (i + 1) * strip_width

\* A window bound that stops one index earlier.
BlendedBelowThirdFromLast(i) == averaging /\ 1 < i /\ i < number_of_files - 3

\* A window bound that starts one index earlier.
BlendedFromSecond(i) == averaging /\ 0 < i /\ i < number_of_files - 2

Blended(i) == averaging /\ 1 < i /\ i < number_of_files - 2

\* The positions of file_paths a strip reads, in the order of the reads.
Offsets == <<-2, -1, 0, 1, 2>>

StripPositions(i) ==
    IF Blended(i) THEN [j \in 1..Taps |-> i + Offsets[j]] ELSE <<i>>

StripPaths(i) == [j \in DOMAIN StripPositions(i) |-> PyIndex(files, StripPositions(i)[j])]

\* The reads of strip i up to and including the first that fails.
RECURSIVE Attempted(_, _)
Attempted(paths, j) ==
    IF j > Len(paths) THEN <<>>
    ELSE IF ReadOutcome(paths[j]) # "ok" THEN <<paths[j]>>
    ELSE <<paths[j]>> \o Attempted(paths, j + 1)

FirstFailure(i) ==
    LET tried == Attempted(StripPaths(i), 1)
    IN  ReadOutcome(tried[Len(tried)])

\* The strips read for index i, one per position, for channel ch.
StripsRead(i, ch) ==
    [j \in DOMAIN StripPaths(i) |->
        read_strip(images[StripPaths(i)[j]], StripStart(i), StripEnd(i))[ch]]

ShapesCombine(i) ==
    IF Blended(i)
    THEN BlendWidth([j \in 1..Taps |-> GridWidth(StripsRead(i, 1)[j])]) >= 0
    ELSE TRUE

NewStrip(i) ==
    [ch \in Channels |->
        IF Blended(i) THEN Blend(StripsRead(i, ch)) ELSE StripsRead(i, ch)[1]]

\* ------------------------------------------------------------------- Init
Init ==
    /\ images \in Directories
    /\ directory = DOMAIN images
    /\ pc = "start"
    /\ caller = "none"
    /\ averaging = TRUE
    /\ files = <<>>
    /\ image_width = 0
    /\ number_of_files = 0
    /\ strip_width = 0
    /\ index = 0
    /\ final = <<>>
    /\ new = <<>>
    /\ reads = <<>>
    /\ stdout = <<>>
    /\ written = <<>>
    /\ error = "none"

Raise(what) ==
    /\ pc' = "failed"
    /\ error' = what

\* ---------------------------------------------------------------- actions
\* main(directory, output_path), line 125: averaging keeps its default.
CallMain ==
    /\ pc = "start"
    /\ caller' = "main"
    /\ averaging' = TRUE
    /\ files' = SortedList(directory)
    /\ pc' = "create_strips"
    /\ UNCHANGED <<directory, images, image_width, number_of_files, strip_width,
                   index, final, new, reads, stdout, written, error>>

\* create_strips(file_paths, averaging) called on its own.
CallCreateStrips ==
    /\ pc = "start"
    /\ caller' = "create_strips"
    /\ averaging' \in BOOLEAN
    /\ files' = SortedList(directory)
    /\ pc' = "create_strips"
    /\ UNCHANGED <<directory, images, image_width, number_of_files, strip_width,
                   index, final, new, reads, stdout, written, error>>

\* An empty list answered with empty grids instead of an exception.
EmptyListReturns ==
    /\ pc = "create_strips"
    /\ files = <<>>
    /\ pc' = IF caller = "main" THEN "write_image" ELSE "done"
    /\ UNCHANGED <<directory, images, caller, averaging, files, image_width,
                   number_of_files, strip_width, index, final, new, reads, stdout,
                   written, error>>

\* Line 56: unpacking the head of an empty list raises.
EmptyListRaises ==
    /\ pc = "create_strips"
    /\ files = <<>>
    /\ Raise("EmptyList")
    /\ UNCHANGED <<directory, images, caller, averaging, files, image_width,
                   number_of_files, strip_width, index, final, new, reads, stdout,
                   written>>

\* Line 57: the first image cannot be read.
FirstReadRaises ==
    /\ pc = "create_strips"
    /\ files # <<>>
    /\ ReadOutcome(files[1]) # "ok"
    /\ Raise(ReadOutcome(files[1]))
    /\ reads' = <<<<0>>>>
    /\ UNCHANGED <<directory, images, caller, averaging, files, image_width,
                   number_of_files, strip_width, index, final, new, stdout, written>>

\* Lines 56-64.
BeginStrips ==
    /\ pc = "create_strips"
    /\ files # <<>>
    /\ ReadOutcome(files[1]) = "ok"
    /\ LET first == images[files[1]]
           first_image_data == read_strip(first, 0, first.width)[1]
       IN  /\ image_width' = GridWidth(first_image_data)
           /\ final' = [ch \in Channels |-> zeros_like(first_image_data)]
           /\ strip_width' = GridWidth(first_image_data) \div Len(files)
    /\ number_of_files' = Len(files)
    /\ index' = 0
    /\ reads' = <<<<0>>>>
    /\ pc' = "loop"
    /\ UNCHANGED <<directory, images, caller, averaging, files, new, stdout,
                   written, error>>

\* Lines 78-82 or 88: one of the reads of the strip raises.
StripReadRaises ==
    /\ pc = "loop"
    /\ index < number_of_files
    /\ FirstFailure(index) # "ok"
    /\ Raise(FirstFailure(index))
    /\ reads' = Append(reads, StripPositions(index))
    /\ UNCHANGED <<directory, images, caller, averaging, files, image_width,
                   number_of_files, strip_width, index, final, new, stdout, written>>

\* Lines 84-86 or 90-92: the strips do not broadcast to one shape, or the
\* result does not fit the target columns.
StripShapeRaises ==
    /\ pc = "loop"
    /\ index < number_of_files
    /\ FirstFailure(index) = "ok"
    /\ IF ShapesCombine(index)
       THEN ~CanAssign(StripStart(index), StripEnd(index), NewStrip(index)[1])
       ELSE TRUE
    /\ Raise("ShapeError")
    /\ reads' = Append(reads, StripPositions(index))
    /\ UNCHANGED <<directory, images, caller, averaging, files, image_width,
                   number_of_files, strip_width, index, final, new, stdout, written>>

\* Lines 66-92 of one iteration.
ProcessStrip ==
    /\ pc = "loop"
    /\ index < number_of_files
    /\ FirstFailure(index) = "ok"
    /\ ShapesCombine(index)
    /\ CanAssign(StripStart(index), StripEnd(index), NewStrip(index)[1])
    /\ new' = NewStrip(index)
    /\ final' = [ch \in Channels |->
                    AssignColumns(final[ch], StripStart(index), StripEnd(index),
                                  NewStrip(index)[ch])]
    /\ reads' = Append(reads, StripPositions(index))
    /\ pc' = "progress"
    /\ UNCHANGED <<directory, images, caller, averaging, files, image_width,
                   number_of_files, strip_width, index, stdout, written, error>>

\* Lines 94-96 on a strip without columns: int(NaN) raises.
ProgressRaises ==
    /\ pc = "progress"
    /\ MeanIsNaN(new[1])
    /\ Raise("NaNError")
    /\ UNCHANGED <<directory, images, caller, averaging, files, image_width,
                   number_of_files, strip_width, index, final, new, reads, stdout,
                   written>>

\* Lines 94-101, and the loop goes on to the next index.
Progress ==
    /\ pc = "progress"
    /\ ~MeanIsNaN(new[1])
    /\ stdout' = Append(stdout,
                    [number |-> index + 1, total |-> number_of_files,
                     filename |-> files[index + 1],
                     from |-> StripStart(index), to |-> StripEnd(index) - 1,
                     mean |-> [ch \in Channels |-> IntMean(new[ch])]])
    /\ index' = index + 1
    /\ pc' = "loop"
    /\ UNCHANGED <<directory, images, caller, averaging, files, image_width,
                   number_of_files, strip_width, final, new, reads, written, error>>

\* Line 103, to the caller: main goes on to write_image (line 127).
ReturnStrips ==
    /\ pc = "loop"
    /\ index = number_of_files
    /\ pc' = IF caller = "main" THEN "write_image" ELSE "done"
    /\ UNCHANGED <<directory, images, caller, averaging, files, image_width,
                   number_of_files, strip_width, index, final, new, reads, stdout,
                   written, error>>

\* Lines 114-115: the grids are stacked and saved.
WriteImage ==
    /\ pc = "write_image"
    /\ written' = <<final>>
    /\ pc' = "done"
    /\ UNCHANGED <<directory, images, caller, averaging, files, image_width,
                   number_of_files, strip_width, index, final, new, reads, stdout,
                   error>>

\* Line 115: the destination cannot be written; `written` holds completed
\* saves only.
WriteImageRaises ==
    /\ pc = "write_image"
    /\ Raise("IOError")
    /\ UNCHANGED <<directory, images, caller, averaging, files, image_width,
                   number_of_files, strip_width, index, final, new, reads, stdout,
                   written>>

Next ==
    \/ CallMain
    \/ CallCreateStrips
    \/ EmptyListRaises
    \/ FirstReadRaises
    \/ BeginStrips
    \/ StripReadRaises
    \/ StripShapeRaises
    \/ ProcessStrip
    \/ ProgressRaises
    \/ Progress
    \/ ReturnStrips
    \/ WriteImage
    \/ WriteImageRaises

Spec == Init /\ [][Next]_vars

\* ------------------------------------------ the blend on chosen samples
\* Five images of five columns: the one blended strip is column 3 of index
\* 2, and its five samples range over BlendSamples.
BlendSamples == {0, 4, 5, 254, 255}

BlendDirectories ==
    {[k \in 1..Taps |->
        [width |-> Taps, decodable |-> TRUE,
         data |-> [ch \in Channels |-> [r \in Rows |->
                     [c \in 1..Taps |-> IF c = 3 THEN s[k] ELSE 0]]]]] :
        s \in [1..Taps -> BlendSamples]}

InitBlend ==
    /\ images \in BlendDirectories
    /\ directory = DOMAIN images
    /\ pc = "start"
    /\ caller = "none"
    /\ averaging = TRUE
    /\ files = <<>>
    /\ image_width = 0
    /\ number_of_files = 0
    /\ strip_width = 0
    /\ index = 0
    /\ final = <<>>
    /\ new = <<>>
    /\ reads = <<>>
    /\ stdout = <<>>
    /\ written = <<>>
    /\ error = "none"

NextBlend ==
    \/ CallMain
    \/ BeginStrips
    \/ ProcessStrip
    \/ Progress
    \/ ReturnStrips
    \/ WriteImage

SpecBlend == InitBlend /\ [][NextBlend]_vars

\* ----------------------------------------------------- the claims' terms
\* create_strips has returned its grids.
Returned == pc \in {"write_image", "done"}

\* create_strips has computed its layout (lines 56-64 have run).
LaidOut == number_of_files > 0

AllDecodable == \A k \in directory : images[k].decodable

SameSized == \A k \in directory : images[k].width = images[1].width

\* The sample of the source image at position i of the list (0-based), at
\* channel ch, row r and column c (0-based).
Sample(i, ch, r, c) == images[files[i + 1]].data[ch][r][c + 1]

\* The output sample at channel ch, row r and column c (0-based).
Output(ch, r, c) == final[ch][r][c + 1]

\* The column interval of strip i as the specification states it.
SpecWidth == image_width \div number_of_files
SpecStart(i) == i * SpecWidth
SpecEnd(i) == IF i < number_of_files - 1 THEN (i + 1) * SpecWidth ELSE image_width
SpecColumns(i) == {c \in 0..(image_width - 1) : SpecStart(i) <= c /\ c < SpecEnd(i)}

\* ------------------------------------------------------------------ claims
\* C1: the N column intervals create_strips computes are contiguous, do not
\* overlap and cover exactly [0, image_width): every column lies in exactly
\* one of them; every processed strip was reported with its interval, and a
\* completed run has processed exactly N.
C1_StripsPartitionWidth ==
    LaidOut =>
        /\ number_of_files = Len(files)
        /\ image_width = images[files[1]].width
        /\ strip_width = SpecWidth
        /\ StripStart(0) = 0
        /\ StripEnd(number_of_files - 1) = image_width
        /\ \A i \in 0..(number_of_files - 1) :
              /\ StripStart(i) = SpecStart(i)
              /\ StripEnd(i) = SpecEnd(i)
              /\ StripStart(i) <= StripEnd(i)
              /\ i < number_of_files - 1 => StripEnd(i) = StripStart(i + 1)
        /\ \A c \in 0..(image_width - 1) :
              Cardinality({i \in 0..(number_of_files - 1) :
                              StripStart(i) <= c /\ c < StripEnd(i)}) = 1
        /\ \A j \in 1..Len(stdout) :
              /\ stdout[j].from = SpecStart(j - 1)
              /\ stdout[j].to = SpecEnd(j - 1) - 1
        /\ Returned => Len(stdout) = number_of_files

\* A completed run whose last strip absorbs a remainder.
C1_Witness ==
    /\ Returned
    /\ number_of_files >= 3
    /\ image_width % number_of_files # 0

\* C2: without averaging, every strip of the returned grids is the copy of
\* the same columns of its own source image.
C2_DirectStripsAreCopies ==
    (Returned /\ ~averaging /\ SameSized /\ number_of_files <= image_width) =>
        \A i \in 0..(number_of_files - 1) : \A ch \in Channels : \A r \in Rows :
            \A c \in SpecColumns(i) : Output(ch, r, c) = Sample(i, ch, r, c)

C2_Witness ==
    /\ Returned
    /\ ~averaging
    /\ SameSized
    /\ number_of_files >= 3
    /\ image_width > number_of_files

\* C3: with averaging, every strip with 1 < i < N-2 of the returned grids
\* is the sum of the five floored fifths of the samples of images i-2..i+2.
C3_BlendIsFloorThenSum ==
    (Returned /\ averaging /\ SameSized /\ number_of_files <= image_width) =>
        \A i \in 0..(number_of_files - 1) :
            (1 < i /\ i < number_of_files - 2) =>
                \A ch \in Channels : \A r \in Rows : \A c \in SpecColumns(i) :
                    Output(ch, r, c) =
                        (Sample(i - 2, ch, r, c) \div 5) + (Sample(i - 1, ch, r, c) \div 5)
                        + (Sample(i, ch, r, c) \div 5) + (Sample(i + 1, ch, r, c) \div 5)
                        + (Sample(i + 2, ch, r, c) \div 5)

C3_Witness ==
    /\ Returned
    /\ averaging
    /\ SameSized
    /\ number_of_files >= 6
    /\ image_width > number_of_files

\* C4: with more files than columns create_strips does not fail, and
\* returns the copy of the last source image.
C4_MoreFilesThanColumns ==
    (LaidOut /\ AllDecodable /\ SameSized /\ number_of_files > image_width) =>
        /\ pc # "failed"
        /\ Returned =>
              \A ch \in Channels : \A r \in Rows : \A c \in 0..(image_width - 1) :
                  Output(ch, r, c) = Sample(number_of_files - 1, ch, r, c)

\* C5: the progress step changes no grid, never fails and always goes on
\* to the next index.
C5_ProgressIsPure ==
    [][pc = "progress" =>
          /\ final' = final
          /\ error' = error
          /\ pc' = "loop"
          /\ index' = index + 1]_vars

\* C6: main is all-or-nothing: nothing happens after a failure (no retry,
\* no later strip), a failing step writes nothing, write_image runs only
\* once create_strips has processed all N >= 1 strips, and a run on an empty
\* list or with an undecodable image never reaches write_image.
C6_AllOrNothing ==
    [][/\ pc # "failed"
       /\ pc' = "failed" =>
             /\ written' = <<>>
             /\ final' = final
             /\ stdout' = stdout
             /\ index' = index
       /\ written' # written =>
             /\ caller = "main"
             /\ pc = "write_image"
             /\ error = "none"
             /\ number_of_files >= 1
             /\ number_of_files = Cardinality(directory)
             /\ index = number_of_files
             /\ Len(stdout) = number_of_files
             /\ \A i \in 0..(number_of_files - 1) : stdout[i + 1].filename = files[i + 1]
             /\ written' = <<final>>
       /\ (directory = {} \/ ~AllDecodable) =>
             /\ pc' \notin {"write_image", "done"}
             /\ written' = <<>>]_vars

\* main has written the image of a directory of several files.
C6_Witness ==
    /\ caller = "main"
    /\ pc = "done"
    /\ written # <<>>
    /\ number_of_files >= 3

\* The positions strip i read: reads[1] is the read of line 57.
ReadsOfStrip(i) == reads[i + 2]

\* C7 as stated: with averaging and N >= 5, strip N-3 is read from source
\* image N-3 alone.
C7_ThirdFromLastIsDirect ==
    (LaidOut /\ averaging /\ number_of_files >= 5 /\ Len(reads) >= number_of_files - 1) =>
        ReadsOfStrip(number_of_files - 3) = <<number_of_files - 3>>

\* C7 amended: with averaging and N >= 5, strip N-3 is blended from the
\* source images N-5..N-1; the strips N-2 and N-1 are the ones read from
\* their own image alone.
C7_ThirdFromLastIsBlended ==
    (LaidOut /\ averaging /\ number_of_files >= 5) =>
        /\ Len(reads) >= number_of_files - 1 =>
              ReadsOfStrip(number_of_files - 3) =
                  <<number_of_files - 5, number_of_files - 4, number_of_files - 3,
                    number_of_files - 2, number_of_files - 1>>
        /\ Len(reads) >= number_of_files =>
              ReadsOfStrip(number_of_files - 2) = <<number_of_files - 2>>
        /\ Len(reads) >= number_of_files + 1 =>
              ReadsOfStrip(number_of_files - 1) = <<number_of_files - 1>>

\* Strip N-3 of at least five has just been computed.
C7_Witness ==
    /\ averaging
    /\ number_of_files >= 5
    /\ pc = "progress"
    /\ index = number_of_files - 3

\* Some blended strip has a source image narrower than the strip's end.
ClippedBlend ==
    \E i \in 0..(number_of_files - 1) :
        /\ averaging /\ 1 < i /\ i < number_of_files - 2
        /\ \E k \in (i - 2)..(i + 2) : images[files[k + 1]].width < SpecEnd(i)

\* C8: a blended strip with a clipped source makes create_strips fail: it
\* never returns grids.
C8_ClippedBlendFails ==
    (LaidOut /\ ClippedBlend) => ~Returned

\* C9: a strip reads its own position alone or the five distinct positions
\* i-2..i+2, all within [0, N-1]; only N >= 5 and 1 < i < N-2 read five.
C9_NeighboursInRange ==
    \A j \in 2..Len(reads) :
        LET i == j - 2
            p == reads[j]
        IN  /\ Len(p) \in {1, 5}
            /\ \A x \in 1..Len(p) : 0 <= p[x] /\ p[x] <= number_of_files - 1
            /\ Len(p) = 1 => p[1] = i
            /\ Len(p) = 5 =>
                  /\ \A x \in 1..5 : p[x] = i - 3 + x
                  /\ Cardinality({p[x] : x \in 1..5}) = 5
                  /\ number_of_files >= 5
                  /\ i \notin {0, 1, number_of_files - 2, number_of_files - 1}
            /\ (~averaging \/ number_of_files < 5) => Len(p) = 1

\* The blended strip of exactly five files: positions 0..4.
C9_Witness ==
    /\ number_of_files = 5
    /\ pc = "progress"
    /\ index = 2
    /\ Len(ReadsOfStrip(2)) = 5

\* The blend of the five samples at (ch, r, c) over unbounded integers.
UnboundedBlend(i, ch, r, c) ==
    (Sample(i - 2, ch, r, c) \div 5) + (Sample(i - 1, ch, r, c) \div 5)
    + (Sample(i, ch, r, c) \div 5) + (Sample(i + 1, ch, r, c) \div 5)
    + (Sample(i + 2, ch, r, c) \div 5)

\* C10: for samples in [0, 255] the sum of the five quotients is at most
\* 255, so the 8-bit blend equals the blend over unbounded integers.
C10_BlendFitsInByte ==
    \A ch \in Channels : \A r \in Rows :
        /\ (pc = "progress" /\ index = 2) =>
              /\ UnboundedBlend(2, ch, r, 2) \in 0..255
              /\ new[ch][r] = <<UnboundedBlend(2, ch, r, 2)>>
        /\ Returned =>
              /\ Output(ch, r, 2) = UnboundedBlend(2, ch, r, 2)
              /\ Output(ch, r, 2) \in 0..255

\* Five samples of 255 blend to 255, the largest sum.
C10_Witness ==
    /\ Returned
    /\ \A k \in 0..4 : Sample(k, 1, 1, 2) = 255
    /\ Output(1, 1, 2) = 255

====
